---- MODULE Spec2Model ----
(***************************************************************************)
(* BSwap16<BS>: a block device backed by a file, with the two bytes of     *)
(* every 16-bit word exchanged on each transfer (src/bswap16.cpp).         *)
(*                                                                         *)
(* The backing file is a sequence of bytes; byte offset o is file[o+1].    *)
(* The std::fstream is its file position (one position, shared by the get  *)
(* and the put side of the underlying file buffer) and its error bits.     *)
(* A memory buffer of len bytes is a function on 0..len: cell len is the   *)
(* byte that follows the buffer in memory.                                 *)
(***************************************************************************)
EXTENDS Integers, Sequences, FiniteSets, TLC

VARIABLES
  pc,          \* "start" | "serving" | "exited" (exit(1) in the constructor)
  BS,          \* the template parameter: bytes per block
  exists,      \* the path names a file
  openable,    \* the path may be opened (or created) for reading and writing
  file,        \* the bytes of the backing file
  nblocksArg,  \* the constructor's argument nblocks (size_t)
  _nblocks,    \* the member _nblocks (int)
  pos,         \* the file position of _file
  rdstate,     \* the error bits of _file
  data,        \* the caller's buffer after the last operation
  lastOp,      \* the last operation: its arguments and what its swap loop did
  file0,       \* history: the bytes of the file before construction
  exists0,     \* history: whether the file existed before construction
  expected,    \* history: per byte offset, the byte a caller last wrote there
  tpc,         \* per thread: "idle" | "positioned"
  top,         \* per thread: the operation in flight
  xfer,        \* per thread: its last transfer and where it took place
  overlapped,  \* per thread: another operation was in flight during its own
  calls        \* per thread: the operations it has yet to begin

vars == <<pc, BS, exists, openable, file, nblocksArg, _nblocks, pos, rdstate,
          data, lastOp, file0, exists0, expected, tpc, top, xfer, overlapped,
          calls>>

---------------------------------------------------------------------------
(* Bounds.  TLC's integers are 32 bits wide, so the widths of the C++      *)
(* types are scaled down, keeping int narrower than size_t and streamoff.  *)

\* bits of int (the type of _nblocks)
IntBits == 4
\* bits of size_t and of std::streamoff
SizeBits == 8
\* the operations address blocks 0..MaxBlocks-1
MaxBlocks == 2

\* conversion to size_t
ToSize(x) == x % (2 ^ SizeBits)

\* conversion to std::streamoff (signed, as wide as size_t)
ToStreamoff(x) ==
  LET m == x % (2 ^ SizeBits)
  IN  IF m >= 2 ^ (SizeBits - 1) THEN m - 2 ^ SizeBits ELSE m

\* conversion to int
ToInt(x) ==
  LET m == x % (2 ^ IntBits)
  IN  IF m >= 2 ^ (IntBits - 1) THEN m - 2 ^ IntBits ELSE m

Min(a, b) == IF a < b THEN a ELSE b
Max(a, b) == IF a > b THEN a ELSE b

---------------------------------------------------------------------------
(* The std::fstream _file: a record [file, pos, st].                       *)

Stream(f, p, st) == [file |-> f, pos |-> p, st |-> st]

\* _file.good()
StreamGood(st) == st = {}

\* _file.fail()
StreamFail(st) == "failbit" \in st \/ "badbit" \in st

\* seekg as if it cleared every error bit
SeekgClearsAll(st) == {}

\* the error bits seekg leaves: it clears eofbit before anything else
SeekgBits(st) == st \ {"eofbit"}

\* _file.seekg(off)
Seekg(S, off) ==
  LET st1 == SeekgBits(S.st)
  IN  IF StreamFail(st1) THEN [S EXCEPT !.st = st1]
      ELSE IF off < 0 THEN [S EXCEPT !.st = st1 \cup {"failbit"}]
      ELSE [S EXCEPT !.st = st1, !.pos = off]

\* _file.seekp(off)
Seekp(S, off) ==
  IF StreamFail(S.st) THEN S
  ELSE IF off < 0 THEN [S EXCEPT !.st = S.st \cup {"failbit"}]
  ELSE [S EXCEPT !.pos = off]

\* _file.read(d, len): the stream afterwards and the bytes it delivered.
\* fault: the device fails the transfer.
StreamRead(S, len, fault) ==
  IF ~StreamGood(S.st)
  THEN [S |-> [S EXCEPT !.st = S.st \cup {"failbit"}], got |-> <<>>]
  ELSE LET n == IF fault THEN 0 ELSE Max(0, Min(len, Len(S.file) - S.pos))
       IN  [S   |-> [S EXCEPT !.pos = S.pos + n,
                              !.st = IF n < len THEN {"eofbit", "failbit"} ELSE {}],
            got |-> [k \in 1..n |-> S.file[S.pos + k]]]

\* the file after len bytes of d are stored at offset p: a gap between the
\* old end of file and p reads as zero bytes
StoreAt(f, p, d, len) ==
  [o \in 1..Max(Len(f), p + len) |->
     IF o > p /\ o <= p + len THEN d[o - p - 1]
     ELSE IF o <= Len(f) THEN f[o]
     ELSE 0]

\* _file.write(d, len)
StreamWrite(S, d, len, fault) ==
  IF ~StreamGood(S.st) THEN [S EXCEPT !.st = S.st \cup {"failbit"}]
  ELSE IF fault THEN [S EXCEPT !.st = {"badbit"}]
  ELSE [S EXCEPT !.file = StoreAt(S.file, S.pos, d, len), !.pos = S.pos + len]

\* _file.flush()
StreamFlush(S, fault) ==
  IF StreamGood(S.st) /\ fault THEN [S EXCEPT !.st = {"badbit"}] ELSE S

---------------------------------------------------------------------------
(* The byte-swap loop:  for (i = 0; i < len; i += 2) swap d[i], d[i+1].   *)
(* m is [mem, acc]: the memory and the set of offsets the loop accessed.   *)

RECURSIVE SwapFrom(_, _, _)
SwapFrom(m, i, len) ==
  IF i >= len THEN m
  ELSE SwapFrom([mem |-> [m.mem EXCEPT ![i] = m.mem[i + 1], ![i + 1] = m.mem[i]],
                 acc |-> m.acc \cup {i, i + 1}],
                i + 2, len)

\* a loop that was left out
NoSwap(mem, len) == [mem |-> mem, acc |-> {}]

\* a loop that stops one pair early: i < len - 2
SwapAllButLastPair(mem, len) == SwapFrom([mem |-> mem, acc |-> {}], 0, len - 2)

\* the loop of read
ReadSwap(mem, len) == SwapFrom([mem |-> mem, acc |-> {}], 0, len)

\* the loop of write
WriteSwap(mem, len) == SwapFrom([mem |-> mem, acc |-> {}], 0, len)

\* the loop of multiread
MultireadSwap(mem, len) == SwapFrom([mem |-> mem, acc |-> {}], 0, len)

\* the loop of multiwrite
MultiwriteSwap(mem, len) == SwapFrom([mem |-> mem, acc |-> {}], 0, len)

---------------------------------------------------------------------------
(* Geometry.                                                               *)

\* blocksize()
blocksize == BS

\* numblocks(): the int _nblocks returned as a size_t
numblocks == ToSize(_nblocks)

\* index * blocksize(), as passed to seekg and seekp
Offset(index) == ToStreamoff(ToSize(index * blocksize))

\* count * blocksize(), the length of a multi-block transfer
TransferLen(count) == ToSize(count * blocksize)

---------------------------------------------------------------------------
(* The constructor.                                                        *)

\* _file(fname, in | out | binary): opens an existing file only
OpenExisting == exists /\ openable

\* _file.open(fname, in | out | binary | trunc): creates the file
OpenTrunc == openable

\* the test as if it were actsize < 0
EmptyOnlyIfNegative(actsize) == actsize < 0

\* actsize <= 0: the file is empty and no size was given
FileEmpty(actsize) == actsize <= 0

\* _nblocks = actsize / blocksize()
InferBlocks(actsize) == ToInt(ToSize(actsize) \div blocksize)

\* decltype(actsize) totsize = nblocks * blocksize()
TotSize(nblocks) == ToStreamoff(ToSize(nblocks * blocksize))

\* actsize < totsize: the file must grow
MustGrow(actsize, totsize) == actsize < totsize

\* _file.seekp(totsize - 1); _file.put('\0')
Grow(S, totsize) ==
  StreamWrite(Seekp(S, totsize - 1), [k \in 0..0 |-> 0], 1, FALSE)

\* _nblocks = nblocks
StoreBlocks(nblocks) == ToInt(nblocks)

NoBuf == [k \in 0..(-1) |-> 0]

OpRecord(kind, index, count, len, fault, goodBefore, pre, post, acc) ==
  [kind |-> kind, index |-> index, count |-> count, len |-> len,
   fault |-> fault, goodBefore |-> goodBefore,
   pre |-> pre, post |-> post, acc |-> acc]

NoOp(kind) == OpRecord(kind, 0, 0, 0, FALSE, TRUE, NoBuf, NoBuf, {})

\* the constructor's result: [exited, created, S, nblocks]
Constructed ==
  LET opened  == OpenExisting
      created == ~opened /\ nblocksArg # 0 /\ OpenTrunc
      S0      == IF opened THEN Stream(file, Len(file), {}) ELSE Stream(<<>>, 0, {})
      actsize == IF opened THEN ToStreamoff(Len(file)) ELSE 0
      totsize == TotSize(nblocksArg)
  IN  IF ~opened /\ ~created
        THEN [exited |-> TRUE, created |-> FALSE, S |-> S0, nblocks |-> 0]
      ELSE IF nblocksArg = 0
        THEN IF FileEmpty(actsize)
               THEN [exited |-> TRUE, created |-> FALSE, S |-> S0, nblocks |-> 0]
               ELSE [exited |-> FALSE, created |-> FALSE, S |-> S0,
                     nblocks |-> InferBlocks(actsize)]
      ELSE [exited |-> FALSE, created |-> created,
            S |-> IF MustGrow(actsize, totsize) THEN Grow(S0, totsize) ELSE S0,
            nblocks |-> StoreBlocks(nblocksArg)]

Construct ==
  /\ pc = "start"
  /\ LET c == Constructed
     IN  IF c.exited
           THEN /\ pc' = "exited"
                /\ UNCHANGED <<exists, file, _nblocks, pos, rdstate>>
           ELSE /\ pc' = "serving"
                /\ exists' = TRUE
                /\ file' = c.S.file
                /\ pos' = c.S.pos
                /\ rdstate' = c.S.st
                /\ _nblocks' = c.nblocks
  /\ lastOp' = NoOp("construct")
  /\ UNCHANGED <<BS, openable, nblocksArg, data, file0, exists0, expected,
                 tpc, top, xfer, overlapped, calls>>

---------------------------------------------------------------------------
(* The operations, each in its two steps: positioning the stream and the   *)
(* transfer.  A transfer returns [S, pre, post, acc, data]: the stream     *)
(* afterwards, the swap loop's buffer before and after the loop, the       *)
(* offsets the loop accessed, and the caller's buffer afterwards.          *)

\* the caller's buffer handed to a read: len bytes, followed in memory by junk
CallerBuf(len, junk) == [k \in 0..len |-> IF k < len THEN 200 + k ELSE junk]

\* the first len bytes of mem
Prefix(mem, len) == [k \in 0..(len - 1) |-> mem[k]]

\* the buffer after the stream delivered got into it
Filled(mem, got) ==
  [k \in DOMAIN mem |-> IF k < Len(got) THEN got[k + 1] ELSE mem[k]]

\* char *d = new char[len]; memcpy(d, data, len): junk follows the allocation
Scratch(C, len, junk) == [k \in 0..len |-> IF k < len THEN C[k] ELSE junk]

\* a positioning step that was left out
NoSeek(S, index) == S

\* _file.seekg(index * blocksize()) of read and multiread
ReadPosition(S, index) == Seekg(S, Offset(index))

\* _file.seekp(index * blocksize()) of write and multiwrite
WritePosition(S, index) == Seekp(S, Offset(index))

\* read: _file.read(d, blocksize()) and the loop
ReadTransfer(S, junk, fault) ==
  LET len == blocksize
      R   == StreamRead(S, len, fault)
      mem == Filled(CallerBuf(len, junk), R.got)
      sw  == ReadSwap(mem, len)
  IN  [S |-> R.S, pre |-> mem, post |-> sw.mem, acc |-> sw.acc,
       data |-> Prefix(sw.mem, len)]

\* multiread: _file.read(d, count * blocksize()) and the loop
MultireadTransfer(S, count, junk, fault) ==
  LET len == TransferLen(count)
      R   == StreamRead(S, len, fault)
      mem == Filled(CallerBuf(len, junk), R.got)
      sw  == MultireadSwap(mem, len)
  IN  [S |-> R.S, pre |-> mem, post |-> sw.mem, acc |-> sw.acc,
       data |-> Prefix(sw.mem, len)]

\* write: the scratch copy and the loop, which come before the positioning
WritePrepare(C, junk) ==
  LET d == Scratch(C, blocksize, junk)
      sw == WriteSwap(d, blocksize)
  IN  [pre |-> d, post |-> sw.mem, acc |-> sw.acc, data |-> C]

\* multiwrite: the scratch copy and the loop
MultiwritePrepare(count, C, junk) ==
  LET d == Scratch(C, TransferLen(count), junk)
      sw == MultiwriteSwap(d, TransferLen(count))
  IN  [pre |-> d, post |-> sw.mem, acc |-> sw.acc, data |-> C]

\* _file.write(d, len) of write and multiwrite
WriteTransfer(S, w, len, fault) ==
  [S |-> StreamWrite(S, w.post, len, fault),
   pre |-> w.pre, post |-> w.post, acc |-> w.acc, data |-> w.data]

\* read(index, data)
DoRead(S, index, junk, fault) ==
  ReadTransfer(ReadPosition(S, index), junk, fault)

\* write(index, data)
DoWrite(S, index, C, junk, fault) ==
  WriteTransfer(WritePosition(S, index), WritePrepare(C, junk), blocksize, fault)

\* multiread(index, count, data)
DoMultiread(S, index, count, junk, fault) ==
  MultireadTransfer(ReadPosition(S, index), count, junk, fault)

\* multiwrite(index, count, data)
DoMultiwrite(S, index, count, C, junk, fault) ==
  WriteTransfer(WritePosition(S, index), MultiwritePrepare(count, C, junk),
                TransferLen(count), fault)

---------------------------------------------------------------------------
(* Inputs.                                                                 *)

Indexes == 0..(MaxBlocks - 1)

\* the block counts of a multi-block transfer that starts at index
Counts(index) == 1..(MaxBlocks - index)

\* what a caller writes: len bytes, all different: 01 02 03 04 ...
Payload(len) == [k \in 0..(len - 1) |-> 1 + k]

\* the byte found after a buffer whose length is odd: any value
JunkFor(len) == IF len % 2 = 1 THEN {0, 255} ELSE {0}

\* the device may fail a transfer of a stream that is still good
Faults == IF StreamGood(rdstate) THEN BOOLEAN ELSE {FALSE}

\* a file of n bytes that exists before construction
InitFile(n) == [k \in 1..n |-> 100 + (k % 50)]

\* sizes of the file before construction: empty, less than a block, blocks
\* and a rest, and more blocks than an int holds
FileSizes(bs) == {0, 1, 2 * bs + 1, (2 ^ (IntBits - 1)) * bs}

\* requested block counts: none, small, above INT_MAX, above UINT_MAX, and
\* two whose product with the block size does not fit std::streamoff
Requests(bs) ==
  {0, 2, 2 ^ (IntBits - 1), 2 ^ IntBits + 1,
   (2 ^ (SizeBits - 1)) \div bs + 2, (2 ^ SizeBits) \div bs + 1}

\* expected after the bytes C are written at offset off
Recorded(off, C, len) ==
  [o \in DOMAIN expected \cup off..(off + len - 1) |->
     IF o >= off /\ o < off + len THEN C[o - off] ELSE expected[o]]

---------------------------------------------------------------------------
(* One operation at a time.                                                *)

S_now == Stream(file, pos, rdstate)

Idle == UNCHANGED <<pc, BS, exists, openable, nblocksArg, _nblocks,
                    file0, exists0, tpc, top, xfer, overlapped, calls>>

Took(r) ==
  /\ file' = r.S.file
  /\ pos' = r.S.pos
  /\ rdstate' = r.S.st
  /\ data' = r.data

Read ==
  /\ pc = "serving"
  /\ \E index \in Indexes, fault \in Faults, junk \in JunkFor(blocksize) :
       LET r == DoRead(S_now, index, junk, fault)
       IN  /\ Took(r)
           /\ lastOp' = OpRecord("read", index, 1, blocksize, fault,
                                 StreamGood(rdstate), r.pre, r.post, r.acc)
  /\ UNCHANGED expected
  /\ Idle

Write ==
  /\ pc = "serving"
  /\ \E index \in Indexes, fault \in Faults, junk \in JunkFor(blocksize) :
       LET C == Payload(blocksize)
           r == DoWrite(S_now, index, C, junk, fault)
       IN  /\ Took(r)
           /\ lastOp' = OpRecord("write", index, 1, blocksize, fault,
                                 StreamGood(rdstate), r.pre, r.post, r.acc)
           /\ expected' = IF StreamGood(rdstate) /\ StreamGood(r.S.st)
                            THEN Recorded(index * BS, C, blocksize)
                            ELSE expected
  /\ Idle

Multiread ==
  /\ pc = "serving"
  /\ \E index \in Indexes, fault \in Faults :
       \E count \in Counts(index) :
         \E junk \in JunkFor(TransferLen(count)) :
           LET r == DoMultiread(S_now, index, count, junk, fault)
           IN  /\ Took(r)
               /\ lastOp' = OpRecord("multiread", index, count,
                                     TransferLen(count), fault,
                                     StreamGood(rdstate), r.pre, r.post, r.acc)
  /\ UNCHANGED expected
  /\ Idle

Multiwrite ==
  /\ pc = "serving"
  /\ \E index \in Indexes, fault \in Faults :
       \E count \in Counts(index) :
         \E junk \in JunkFor(TransferLen(count)) :
           LET C == Payload(TransferLen(count))
               r == DoMultiwrite(S_now, index, count, C, junk, fault)
           IN  /\ Took(r)
               /\ lastOp' = OpRecord("multiwrite", index, count,
                                     TransferLen(count), fault,
                                     StreamGood(rdstate), r.pre, r.post, r.acc)
               /\ expected' = IF StreamGood(rdstate) /\ StreamGood(r.S.st)
                                THEN Recorded(index * BS, C, TransferLen(count))
                                ELSE expected
  /\ Idle

\* flush()
Flush ==
  /\ pc = "serving"
  /\ \E fault \in Faults :
       /\ rdstate' = StreamFlush(S_now, fault).st
       /\ lastOp' = OpRecord("flush", 0, 0, 0, fault, StreamGood(rdstate),
                             NoBuf, NoBuf, {})
  /\ UNCHANGED <<file, pos, data, expected>>
  /\ Idle

\* trim(size_t, size_t): does nothing, whatever its arguments
Trim ==
  /\ pc = "serving"
  /\ lastOp' = OpRecord("trim", 0, 0, 0, FALSE, StreamGood(rdstate),
                        NoBuf, NoBuf, {})
  /\ UNCHANGED <<file, pos, rdstate, data, expected>>
  /\ Idle

---------------------------------------------------------------------------
(* Two callers of one instance.  The class holds no lock: a caller's       *)
(* handler runs its positioning step and its transfer step, and the other  *)
(* caller's steps may fall between the two.                                *)

Threads == {1, 2}

NoXfer == [kind |-> "none", index |-> 0, off |-> 0,
           took |-> FALSE, overlapped |-> FALSE, data |-> NoBuf]

InFlight(t) == tpc[t] = "positioned"

\* a caller enters read, write, multiread or multiwrite and runs it up to
\* and including seekg or seekp
Position(t) ==
  /\ pc = "serving"
  /\ ~InFlight(t)
  /\ calls[t] > 0
  /\ calls' = [calls EXCEPT ![t] = calls[t] - 1]
  /\ \E kind \in {"read", "write", "multiread", "multiwrite"}, index \in Indexes :
       \E count \in IF kind \in {"multiread", "multiwrite"}
                      THEN Counts(index) ELSE {1} :
         LET len == IF kind \in {"multiread", "multiwrite"}
                      THEN TransferLen(count) ELSE blocksize
             S1  == IF kind \in {"read", "multiread"}
                      THEN ReadPosition(S_now, index)
                      ELSE WritePosition(S_now, index)
             w   == CASE kind = "write" -> WritePrepare(Payload(len), 0)
                      [] kind = "multiwrite" ->
                           MultiwritePrepare(count, Payload(len), 0)
                      [] OTHER -> [pre |-> NoBuf, post |-> NoBuf, acc |-> {}]
         IN  /\ pos' = S1.pos
             /\ rdstate' = S1.st
             /\ top' = [top EXCEPT ![t] =
                          OpRecord(kind, index, count, len, FALSE,
                                   StreamGood(rdstate), w.pre, w.post, w.acc)]
  /\ tpc' = [tpc EXCEPT ![t] = "positioned"]
  /\ overlapped' = <<IF t = 1 THEN InFlight(2) ELSE overlapped[1] \/ InFlight(1),
                     IF t = 2 THEN InFlight(1) ELSE overlapped[2] \/ InFlight(2)>>
  /\ UNCHANGED <<pc, BS, exists, openable, file, nblocksArg, _nblocks, data,
                 lastOp, file0, exists0, expected, xfer>>

\* the caller's handler runs from its _file.read or _file.write to its end
Transfer(t) ==
  /\ pc = "serving"
  /\ InFlight(t)
  /\ LET op == top[t]
         r  == CASE op.kind = "read" -> ReadTransfer(S_now, 0, FALSE)
                 [] op.kind = "multiread" ->
                      MultireadTransfer(S_now, op.count, 0, FALSE)
                 [] OTHER ->
                      WriteTransfer(S_now,
                                    [pre |-> op.pre, post |-> op.post,
                                     acc |-> op.acc,
                                     data |-> Prefix(op.pre, op.len)],
                                    op.len, FALSE)
     IN  /\ file' = r.S.file
         /\ pos' = r.S.pos
         /\ rdstate' = r.S.st
         /\ xfer' = [xfer EXCEPT ![t] =
                       [kind |-> op.kind, index |-> op.index, off |-> pos,
                        took |-> StreamGood(rdstate),
                        overlapped |-> overlapped[t], data |-> r.data]]
  /\ tpc' = [tpc EXCEPT ![t] = "idle"]
  /\ UNCHANGED <<pc, BS, exists, openable, nblocksArg, _nblocks, data, lastOp,
                 file0, exists0, expected, top, overlapped, calls>>

---------------------------------------------------------------------------
(* Specifications.                                                         *)

InitWith(sizes) ==
  /\ pc = "start"
  /\ BS \in sizes
  /\ exists \in BOOLEAN
  /\ openable \in BOOLEAN
  /\ file \in {InitFile(n) : n \in IF exists THEN FileSizes(BS) ELSE {0}}
  /\ nblocksArg \in Requests(BS)
  /\ _nblocks = 0
  /\ pos = 0
  /\ rdstate = {}
  /\ data = NoBuf
  /\ lastOp = NoOp("none")
  /\ file0 = file
  /\ exists0 = exists
  /\ expected = [o \in {} |-> 0]
  /\ tpc = <<"idle", "idle">>
  /\ top = <<NoOp("none"), NoOp("none")>>
  /\ xfer = <<NoXfer, NoXfer>>
  /\ overlapped = <<FALSE, FALSE>>
  /\ calls = <<2, 1>>

\* the block size is even
Init == InitWith({4})

\* the block size is odd
InitOdd == InitWith({3})

\* a file of whole blocks and a rest, its size not given
InitConc ==
  /\ InitWith({4})
  /\ exists
  /\ openable
  /\ nblocksArg = 0
  /\ Len(file) = 2 * BS + 1

Next ==
  \/ Construct
  \/ Read
  \/ Write
  \/ Multiread
  \/ Multiwrite
  \/ Flush
  \/ Trim

NextConc ==
  \/ Construct
  \/ \E t \in Threads : Position(t)
  \/ \E t \in Threads : Transfer(t)

\* one operation at a time, block size even
Spec == Init /\ [][Next]_vars

\* one operation at a time, block size odd
SpecOdd == InitOdd /\ [][Next]_vars

\* two callers whose operations interleave
SpecConc == InitConc /\ [][NextConc]_vars

---------------------------------------------------------------------------
(* The claims.                                                             *)

Reads == {"read", "multiread"}
Writes == {"write", "multiwrite"}
Healthy == StreamGood(rdstate)
JustConstructed == pc = "serving" /\ lastOp.kind = "construct"

\* the blocks lastOp addressed lie within the device
InRange == lastOp.index + lastOp.count <= numblocks

\* byte k of C with every byte pair exchanged
Exchanged(C, k) == C[IF k % 2 = 0 THEN k + 1 ELSE k - 1]

\* C1: on a healthy backend, a read or multiread of blocks in range returns,
\* for every byte of them a caller has written (by write or multiwrite, in
\* any mix of single and multi-block calls), the byte last written there.
C1_RoundTrip ==
  (pc = "serving" /\ lastOp.kind \in Reads /\ lastOp.goodBefore /\ Healthy
     /\ InRange)
  => \A k \in 0..(lastOp.len - 1) :
       (lastOp.index * BS + k) \in DOMAIN expected
       => data[k] = expected[lastOp.index * BS + k]

\* C1's case: block 1 is read by itself after a multiwrite of blocks 0 and 1
C1_Witness ==
  /\ pc = "serving" /\ lastOp.kind = "read" /\ lastOp.index = 1
  /\ lastOp.goodBefore /\ Healthy /\ InRange
  /\ \A k \in 0..(BS - 1) :
       /\ (BS + k) \in DOMAIN expected
       /\ expected[BS + k] = Payload(2 * BS)[BS + k]
       /\ data[k] = Payload(2 * BS)[BS + k]

\* C2: a write or multiwrite on a healthy backend leaves in the file, at
\* [index * BS, (index + count) * BS), the caller's bytes with every byte
\* pair exchanged, changes no other byte of the file, and leaves the
\* caller's buffer as it was.
C2_WriteEffect ==
  [][(pc = "serving" /\ lastOp'.kind \in Writes /\ Healthy /\ StreamGood(rdstate'))
     => LET off == lastOp'.index * BS
            len == lastOp'.count * BS
            C   == Payload(len)
        IN  /\ Len(file') >= off + len
            /\ \A k \in 0..(len - 1) : file'[off + k + 1] = Exchanged(C, k)
            /\ \A o \in 1..Len(file) :
                 (o <= off \/ o > off + len) => file'[o] = file[o]
            /\ data' = C]_vars

\* C2's case: block size 4, block 0 written with 01 02 03 04 is stored as
\* 02 01 04 03
C2_Witness ==
  /\ pc = "serving" /\ lastOp.kind = "write" /\ lastOp.index = 0
  /\ lastOp.goodBefore /\ Healthy
  /\ BS = 4
  /\ data = Payload(4)
  /\ file[1] = 2 /\ file[2] = 1 /\ file[3] = 4 /\ file[4] = 3

\* C3: after construction the file is at least numblocks() * blocksize()
\* bytes long.
C3_SizeInvariant ==
  pc = "serving" => Len(file) >= numblocks * blocksize

\* C4: a nonzero requested count grows a smaller file to exactly
\* nblocks * BS bytes, keeping the bytes it had; a file that is large enough
\* is left as it is.
C4_Growth ==
  (JustConstructed /\ nblocksArg # 0)
  => IF Len(file0) < nblocksArg * BS
       THEN /\ Len(file) = nblocksArg * BS
            /\ \A o \in 1..Len(file0) : file[o] = file0[o]
       ELSE file = file0

\* C5: construction with requested count 0 and a file that is missing,
\* cannot be opened or is empty ends in exit(1): the file is neither created
\* nor changed, and the instance never serves.
C5_FatalCases ==
  (pc # "start" /\ nblocksArg = 0
     /\ (~exists0 \/ ~openable \/ Len(file0) = 0))
  => (pc = "exited" /\ exists = exists0 /\ file = file0)

\* C5's case: the constructor has run on an empty file with no size given
C5_Witness ==
  /\ pc = "exited" /\ lastOp.kind = "construct"
  /\ nblocksArg = 0 /\ exists0 /\ openable /\ Len(file0) = 0

\* C6: a file of S > 0 bytes and requested count 0: construction succeeds,
\* numblocks() is S divided by the block size, and the file is unchanged.
C6_SizingInference ==
  (pc # "start" /\ nblocksArg = 0 /\ exists0 /\ openable /\ Len(file0) > 0)
  => /\ pc = "serving"
     /\ lastOp.kind = "construct" => numblocks = Len(file0) \div BS
     /\ lastOp.kind = "construct" => file = file0

\* the transfer of lastOp' failed: the device failed it, or a read went past
\* the end of the file
TransferFailed ==
  /\ lastOp'.kind \in Reads \cup Writes
  /\ lastOp'.goodBefore
  /\ \/ lastOp'.fault
     \/ /\ lastOp'.kind \in Reads
        /\ lastOp'.index * BS + lastOp'.len > Len(file)

\* C7: a failed transfer makes good() false, and once good() is false it is
\* false after every further operation.
C7_HealthLatch ==
  [][(pc = "serving")
     => /\ TransferFailed => ~StreamGood(rdstate')
        /\ ~Healthy => ~StreamGood(rdstate')]_vars

\* C7's case: a read, whose seekg clears eofbit, has run on a backend that
\* was not good
C7_Witness ==
  /\ pc = "serving" /\ lastOp.kind = "read" /\ ~lastOp.goodBefore /\ ~Healthy

\* C8: after construction with a nonzero requested count, numblocks() is
\* that count, and the size compared with the file's is count * BS.
C8_ExplicitCount ==
  (JustConstructed /\ nblocksArg # 0)
  => /\ numblocks = nblocksArg
     /\ TotSize(nblocksArg) = nblocksArg * BS

\* C9: when the transfer length is odd the swap loop leaves the last byte
\* as it was and accesses no offset at or beyond the length.
C9_OddLength ==
  (pc = "serving" /\ lastOp.kind \in Reads \cup Writes /\ lastOp.len % 2 = 1)
  => /\ lastOp.post[lastOp.len - 1] = lastOp.pre[lastOp.len - 1]
     /\ lastOp.acc \subseteq 0..(lastOp.len - 1)

\* C10: a transfer of an operation during which no other operation was in
\* flight takes place at its own index * BS, whatever ran before; a transfer
\* of an operation that overlapped another can take place elsewhere.
C10_OwnOffset ==
  \A t \in Threads :
    (xfer[t].took /\ ~xfer[t].overlapped) => xfer[t].off = xfer[t].index * BS

\* C10's case: caller 2's transfer took place away from its own offset while
\* it overlapped caller 1's, and caller 1 has since run an operation alone
C10_Witness ==
  /\ xfer[2].took /\ xfer[2].overlapped
  /\ xfer[2].off # xfer[2].index * BS
  /\ xfer[1].took /\ ~xfer[1].overlapped
  /\ xfer[1].off = xfer[1].index * BS
  /\ calls = <<0, 0>>
  /\ ~InFlight(1) /\ ~InFlight(2)

====
